---- MODULE Spec2Model ----
(***************************************************************************)
(* Model of acl/compression/stream/write_stream_data.h: the three size     *)
(* calculators and the three region writers of the track-data packer.      *)
(*                                                                         *)
(* A destination region is modelled by the sequence `out` of the bytes     *)
(* stored through the write cursor: the writers store strictly             *)
(* sequentially from offset 0, so offset i of the destination holds        *)
(* out[i+1] and the cursor is Len(out).  The destination end is data_size; *)
(* elements of `out` beyond data_size are bytes stored past the end.       *)
(***************************************************************************)
EXTENDS Integers, Sequences, FiniteSets

\* ------------------------------------------------------------------ bounds
MaxBones == 2
MaxSamples == 2
SizeSlack == 1

\* ------------------------------------------------- formats (external enums)
RotationFormats ==
    {"Quat_128", "QuatDropW_96", "QuatDropW_48", "QuatDropW_32", "QuatDropW_Variable"}

VectorFormats ==
    {"Vector3_96", "Vector3_48", "Vector3_32", "Vector3_Variable"}

\* Clip-level format arguments the modelled callers pass: one fixed-width and
\* the variable one of each family.
ClipRotationFormats == {"Quat_128", "QuatDropW_Variable"}

ClipVectorFormats == {"Vector3_96", "Vector3_Variable"}

is_rotation_format_variable(format) == format = "QuatDropW_Variable"

is_vector_format_variable(format) == format = "Vector3_Variable"

get_packed_rotation_size(format) ==
    CASE format = "Quat_128" -> 16
      [] format = "QuatDropW_96" -> 12
      [] format = "QuatDropW_48" -> 6
      [] format = "QuatDropW_32" -> 4
      [] OTHER -> 0

get_packed_vector_size(format) ==
    CASE format = "Vector3_96" -> 12
      [] format = "Vector3_48" -> 6
      [] format = "Vector3_32" -> 4
      [] OTHER -> 0

\* Numeric value of the RotationFormat8 / VectorFormat8 enumerators.
rotation_format_value(format) ==
    CASE format = "Quat_128" -> 0
      [] format = "QuatDropW_96" -> 1
      [] format = "QuatDropW_48" -> 2
      [] format = "QuatDropW_32" -> 3
      [] OTHER -> 4

vector_format_value(format) ==
    CASE format = "Vector3_96" -> 0
      [] format = "Vector3_48" -> 1
      [] format = "Vector3_32" -> 2
      [] OTHER -> 3

\* safe_static_cast<uint8_t>: the value when it is representable.
safe_static_cast_uint8(v) == v % 256

\* ------------------------------------------------------------ track streams
\* A TrackStream: the resolved format, the number of samples and the byte
\* width of one sample.
TrackStream(format, num_samples_, sample_size) ==
    [format |-> format, num_samples |-> num_samples_, sample_size |-> sample_size]

RotationTrackStream(format, num_samples_) ==
    TrackStream(format, num_samples_, get_packed_rotation_size(format))

TranslationTrackStream(format, num_samples_) ==
    TrackStream(format, num_samples_, get_packed_vector_size(format))

\* The rotation channels of the modelled inputs: a default one (default
\* tracks are constant too), constant ones in the formats cf, animated ones in
\* the formats af with a sample count out of counts.  Default and constant
\* streams hold their single sample.
RotationChannels(cf, af, counts) ==
    {[is_default |-> TRUE, is_constant |-> TRUE,
      stream |-> RotationTrackStream("QuatDropW_32", 1)]}
    \cup {[is_default |-> FALSE, is_constant |-> TRUE,
           stream |-> RotationTrackStream(f, 1)] : f \in cf}
    \cup {[is_default |-> FALSE, is_constant |-> FALSE,
           stream |-> RotationTrackStream(f, n)] : f \in af, n \in counts}

TranslationChannels(cf, af, counts) ==
    {[is_default |-> TRUE, is_constant |-> TRUE,
      stream |-> TranslationTrackStream("Vector3_48", 1)]}
    \cup {[is_default |-> FALSE, is_constant |-> TRUE,
           stream |-> TranslationTrackStream(f, 1)] : f \in cf}
    \cup {[is_default |-> FALSE, is_constant |-> FALSE,
           stream |-> TranslationTrackStream(f, n)] : f \in af, n \in counts}

BoneStreams(r, t) ==
    [rotations |-> r.stream, translations |-> t.stream,
     is_rotation_default |-> r.is_default, is_rotation_constant |-> r.is_constant,
     is_translation_default |-> t.is_default, is_translation_constant |-> t.is_constant]

\* The BoneStreams arrays of up to MaxBones bones over the channel sets R, T.
BoneStreamsArrays(R, T) ==
    UNION {[1..n -> {BoneStreams(r, t) : r \in R, t \in T}] : n \in 0..MaxBones}

\* Clips as the encoder hands them over: one sample count shared by every
\* animated channel.
ClipArrays ==
    UNION {BoneStreamsArrays(
               RotationChannels({"QuatDropW_32"}, {"QuatDropW_32"}, {n}),
               TranslationChannels({"Vector3_48"}, {"Vector3_48"}, {n})) :
           n \in 1..MaxSamples}

\* Inputs of the constant writer: constant channels in several formats.
ConstantArrays ==
    BoneStreamsArrays(
        RotationChannels({"QuatDropW_48", "QuatDropW_32"}, {"QuatDropW_32"}, {MaxSamples}),
        TranslationChannels({"Vector3_48", "Vector3_32"}, {"Vector3_48"}, {MaxSamples}))

\* Inputs of the animated writer: every animated channel reports a sample
\* count of its own, nothing forcing the counts to agree.
AnimatedArrays ==
    BoneStreamsArrays(
        RotationChannels({"QuatDropW_32"}, {"QuatDropW_32"}, 1..MaxSamples),
        TranslationChannels({"Vector3_48"}, {"Vector3_48"}, 1..MaxSamples))

\* Inputs of the format-table writer: animated channels resolved to several
\* formats.
FormatArrays ==
    BoneStreamsArrays(
        RotationChannels({"QuatDropW_32"}, {"QuatDropW_48", "QuatDropW_32"}, {MaxSamples}),
        TranslationChannels({"Vector3_48"}, {"Vector3_48", "Vector3_32"}, {MaxSamples}))

is_rotation_animated(bone_stream) ==
    ~bone_stream.is_rotation_constant /\ ~bone_stream.is_rotation_default

is_translation_animated(bone_stream) ==
    ~bone_stream.is_translation_constant /\ ~bone_stream.is_translation_default

\* Sample count of the first animated channel met, rotation before
\* translation, bones ascending; 0 when no channel is animated.
RECURSIVE animated_num_samples_from(_, _, _)
animated_num_samples_from(bs, nb, i) ==
    IF i = nb THEN 0
    ELSE IF is_rotation_animated(bs[i + 1]) THEN bs[i + 1].rotations.num_samples
    ELSE IF is_translation_animated(bs[i + 1]) THEN bs[i + 1].translations.num_samples
    ELSE animated_num_samples_from(bs, nb, i + 1)

get_animated_num_samples(bs, nb) == animated_num_samples_from(bs, nb, 0)

\* Position of a channel within its bone: rotation first, translation second.
ChannelTag(ch) == IF ch = "rotation" THEN 0 ELSE 1

\* The k-th byte (1-based) of sample sample_index of a channel's stream.  The
\* stored bytes are opaque to the packer; every byte of every stream is given
\* a distinct value so that a misplaced byte is visible.
RawByte(b, ch, t, k) == ((b * 2 + ChannelTag(ch)) * MaxSamples + t) * 16 + k

\* What a read past the last sample of a stream yields.
Garbage == 0 - 1

\* The sample_size bytes at get_raw_sample_ptr(sample_index).
get_raw_sample(b, ch, stream, t) ==
    [k \in 1..stream.sample_size |->
        IF t < stream.num_samples THEN RawByte(b, ch, t, k) ELSE Garbage]

\* ------------------------------------------------------------- calculators
constant_rotation_counted(bone_stream) ==
    ~bone_stream.is_rotation_default /\ bone_stream.is_rotation_constant

constant_translation_counted(bone_stream) ==
    ~bone_stream.is_translation_default /\ bone_stream.is_translation_constant

RECURSIVE constant_data_size_from(_, _, _)
constant_data_size_from(bs, nb, i) ==
    IF i = nb THEN 0
    ELSE (IF constant_rotation_counted(bs[i + 1])
            THEN get_packed_rotation_size(bs[i + 1].rotations.format) ELSE 0)
       + (IF constant_translation_counted(bs[i + 1])
            THEN get_packed_vector_size(bs[i + 1].translations.format) ELSE 0)
       + constant_data_size_from(bs, nb, i + 1)

get_constant_data_size(bs, nb) == constant_data_size_from(bs, nb, 0)

\* Variant: the total grows by one sample per channel, whatever the count.
animated_total_term_once(sample_size, num_samples_) == sample_size

\* Variant: the pose size grows by the whole track.
animated_pose_term_whole(sample_size, num_samples_) == sample_size * num_samples_

\* What one animated channel adds to the total and to the pose size.
animated_total_term(sample_size, num_samples_) == sample_size * num_samples_

animated_pose_term(sample_size, num_samples_) == sample_size

RECURSIVE animated_data_size_from(_, _, _)
animated_data_size_from(bs, nb, i) ==
    IF i = nb THEN [size |-> 0, pose |-> 0]
    ELSE LET bone == bs[i + 1]
             rs == get_packed_rotation_size(bone.rotations.format)
             ts == get_packed_vector_size(bone.translations.format)
             ra == is_rotation_animated(bone)
             ta == is_translation_animated(bone)
             rest == animated_data_size_from(bs, nb, i + 1)
         IN [size |-> (IF ra THEN animated_total_term(rs, bone.rotations.num_samples) ELSE 0)
                    + (IF ta THEN animated_total_term(ts, bone.translations.num_samples) ELSE 0)
                    + rest.size,
             pose |-> (IF ra THEN animated_pose_term(rs, bone.rotations.num_samples) ELSE 0)
                    + (IF ta THEN animated_pose_term(ts, bone.translations.num_samples) ELSE 0)
                    + rest.pose]

\* Returns the total size; pose is out_animated_pose_size.
get_animated_data_size(bs, nb) == animated_data_size_from(bs, nb, 0)

format_rotation_counted(is_rotation_variable, bone_stream) ==
    is_rotation_variable /\ is_rotation_animated(bone_stream)

\* Variant: the family test is dropped for translations.
format_translation_counted_any(is_translation_variable, bone_stream) ==
    is_translation_animated(bone_stream)

format_translation_counted(is_translation_variable, bone_stream) ==
    is_translation_variable /\ is_translation_animated(bone_stream)

RECURSIVE format_per_track_data_size_from(_, _, _, _, _)
format_per_track_data_size_from(bs, nb, rv, tv, i) ==
    IF i = nb THEN 0
    ELSE (IF format_rotation_counted(rv, bs[i + 1]) THEN 1 ELSE 0)
       + (IF format_translation_counted(tv, bs[i + 1]) THEN 1 ELSE 0)
       + format_per_track_data_size_from(bs, nb, rv, tv, i + 1)

get_format_per_track_data_size(bs, nb, rf, tf) ==
    format_per_track_data_size_from(bs, nb, is_rotation_format_variable(rf),
                                    is_vector_format_variable(tf), 0)

\* ------------------------------------------------------------------- state
VARIABLES
    bone_streams,        \* the BoneStreams array handed to every call
    pc,                  \* "idle", "loop", "returned", "violation", "fault"
    op,                  \* the function called
    rotation_format,     \* clip-level rotation format argument
    translation_format,  \* clip-level translation format argument
    data_size,           \* the region size argument: the destination end
    out,                 \* bytes stored through the cursor
    bone_index,          \* loop variable
    sample_index,        \* loop variable of the animated writer
    num_samples,         \* local of the animated writer
    err,                 \* the ACL_ENSURE that failed, "none" otherwise
    ret                  \* the value a calculator returned

vars == <<bone_streams, pc, op, rotation_format, translation_format, data_size,
          out, bone_index, sample_index, num_samples, err, ret>>

num_bones == Len(bone_streams)

NoRet == [size |-> 0, pose |-> 0]

InitWith(arrays) ==
    /\ bone_streams \in arrays
    /\ pc = "idle"
    /\ op = "none"
    /\ rotation_format = "Quat_128"
    /\ translation_format = "Vector3_96"
    /\ data_size = 0
    /\ out = <<>>
    /\ bone_index = 0
    /\ sample_index = 0
    /\ num_samples = 0
    /\ err = "none"
    /\ ret = NoRet

Init == InitWith(ClipArrays)

InitConstant == InitWith(ConstantArrays)

InitAnimated == InitWith(AnimatedArrays)

InitFormat == InitWith(FormatArrays)

\* Region sizes a caller hands to a writer: the calculator's value c, sizes
\* within SizeSlack of it, and 0.
SuppliedSizes(c) == {0} \cup {s \in (c - SizeSlack)..(c + SizeSlack) : s >= 0}

\* ------------------------------------------------------- calculator calls
GetConstantDataSize ==
    /\ pc = "idle"
    /\ pc' = "returned"
    /\ op' = "get_constant_data_size"
    /\ ret' = [size |-> get_constant_data_size(bone_streams, num_bones), pose |-> 0]
    /\ UNCHANGED <<bone_streams, rotation_format, translation_format, data_size,
                   out, bone_index, sample_index, num_samples, err>>

GetAnimatedDataSize ==
    /\ pc = "idle"
    /\ pc' = "returned"
    /\ op' = "get_animated_data_size"
    /\ ret' = get_animated_data_size(bone_streams, num_bones)
    /\ UNCHANGED <<bone_streams, rotation_format, translation_format, data_size,
                   out, bone_index, sample_index, num_samples, err>>

GetFormatPerTrackDataSize ==
    /\ pc = "idle"
    /\ \E rf \in ClipRotationFormats, tf \in ClipVectorFormats :
        /\ rotation_format' = rf
        /\ translation_format' = tf
        /\ ret' = [size |-> get_format_per_track_data_size(bone_streams, num_bones, rf, tf),
                   pose |-> 0]
    /\ pc' = "returned"
    /\ op' = "get_format_per_track_data_size"
    /\ UNCHANGED <<bone_streams, data_size, out, bone_index, sample_index,
                   num_samples, err>>

\* --------------------------------------------------- write_constant_track_data
\* Variant: default rotations are stored too.
constant_rotation_written_default(bone_stream) == bone_stream.is_rotation_constant

constant_rotation_written(bone_stream) ==
    ~bone_stream.is_rotation_default /\ bone_stream.is_rotation_constant

constant_translation_written(bone_stream) ==
    ~bone_stream.is_translation_default /\ bone_stream.is_translation_constant

\* Variant: translation before rotation.
constant_bone_bytes_swapped(bs, b) ==
    (IF constant_translation_written(bs[b + 1])
        THEN get_raw_sample(b, "translation", bs[b + 1].translations, 0) ELSE <<>>)
    \o (IF constant_rotation_written(bs[b + 1])
        THEN get_raw_sample(b, "rotation", bs[b + 1].rotations, 0) ELSE <<>>)

\* The bytes one iteration of the bone loop stores: sample 0 of the rotation,
\* then sample 0 of the translation (b is the 0-based bone index).
constant_bone_bytes(bs, b) ==
    (IF constant_rotation_written(bs[b + 1])
        THEN get_raw_sample(b, "rotation", bs[b + 1].rotations, 0) ELSE <<>>)
    \o (IF constant_translation_written(bs[b + 1])
        THEN get_raw_sample(b, "translation", bs[b + 1].translations, 0) ELSE <<>>)

\* Variant: the check is strict.
constant_offset_valid_strict(cursor, end) == cursor < end

\* ACL_ENSURE(constant_data <= constant_data_end, ...)
constant_offset_valid(cursor, end) == cursor <= end

\* ACL_ENSURE(constant_data == constant_data_end, ...)
constant_offset_final(cursor, end) == cursor = end

WriteConstantTrackData ==
    /\ pc = "idle"
    /\ \E size \in SuppliedSizes(get_constant_data_size(bone_streams, num_bones)) :
        data_size' = size
    /\ pc' = "loop"
    /\ op' = "write_constant_track_data"
    /\ bone_index' = 0
    /\ UNCHANGED <<bone_streams, rotation_format, translation_format, out,
                   sample_index, num_samples, err, ret>>

ConstantBone ==
    /\ pc = "loop"
    /\ op = "write_constant_track_data"
    /\ bone_index < num_bones
    /\ out' = out \o constant_bone_bytes(bone_streams, bone_index)
    /\ IF constant_offset_valid(Len(out'), data_size)
         THEN /\ bone_index' = bone_index + 1
              /\ UNCHANGED <<pc, err>>
         ELSE /\ pc' = "violation"
              /\ err' = "wrote_too_much"
              /\ UNCHANGED bone_index
    /\ UNCHANGED <<bone_streams, op, rotation_format, translation_format, data_size,
                   sample_index, num_samples, ret>>

ConstantEnd ==
    /\ pc = "loop"
    /\ op = "write_constant_track_data"
    /\ bone_index = num_bones
    /\ IF constant_offset_final(Len(out), data_size)
         THEN pc' = "returned" /\ UNCHANGED err
         ELSE pc' = "violation" /\ err' = "wrote_too_little"
    /\ UNCHANGED <<bone_streams, op, rotation_format, translation_format, data_size,
                   out, bone_index, sample_index, num_samples, ret>>

\* --------------------------------------------------- write_animated_track_data
\* Variant: a single sample is accepted.
has_samples_to_write_one(n) == n > 0

\* ACL_ENSURE(num_samples > 1, "No samples to write!")
has_samples_to_write(n) == n > 1

\* The bytes one iteration of the inner loop stores: sample t of the rotation,
\* then sample t of the translation.
animated_bone_bytes(bs, b, t) ==
    (IF is_rotation_animated(bs[b + 1])
        THEN get_raw_sample(b, "rotation", bs[b + 1].rotations, t) ELSE <<>>)
    \o (IF is_translation_animated(bs[b + 1])
        THEN get_raw_sample(b, "translation", bs[b + 1].translations, t) ELSE <<>>)

\* Variant: bone outer, time inner.
animated_advance_bone_major(t, b, ns, nb) ==
    IF t + 1 < ns THEN [sample_index |-> t + 1, bone_index |-> b]
    ELSE IF b + 1 < nb THEN [sample_index |-> 0, bone_index |-> b + 1]
    ELSE [sample_index |-> ns, bone_index |-> 0]

\* The loop nest: time outer, bone inner.
animated_advance(t, b, ns, nb) ==
    IF b + 1 < nb THEN [sample_index |-> t, bone_index |-> b + 1]
                  ELSE [sample_index |-> t + 1, bone_index |-> 0]

\* The nest is over once the outer variable has run out.
animated_loop_done(t, ns) == t >= ns

\* ACL_ENSURE(animated_track_data <= animated_track_data_end, ...)
animated_offset_valid(cursor, end) == cursor <= end

\* ACL_ENSURE(animated_track_data == animated_track_data_end, ...)
animated_offset_final(cursor, end) == cursor = end

\* The iteration at (t, b) reads a sample its stream does not hold.
rotation_read_out_of_bounds(bs, b, t) ==
    is_rotation_animated(bs[b + 1]) /\ t >= bs[b + 1].rotations.num_samples

translation_read_out_of_bounds(bs, b, t) ==
    is_translation_animated(bs[b + 1]) /\ t >= bs[b + 1].translations.num_samples

WriteAnimatedTrackData ==
    /\ pc = "idle"
    /\ \E size \in SuppliedSizes(get_animated_data_size(bone_streams, num_bones).size) :
        data_size' = size
    /\ op' = "write_animated_track_data"
    /\ num_samples' = get_animated_num_samples(bone_streams, num_bones)
    /\ IF has_samples_to_write(num_samples')
         THEN pc' = "loop" /\ UNCHANGED err
         ELSE pc' = "violation" /\ err' = "no_samples"
    /\ sample_index' = 0
    /\ bone_index' = 0
    /\ UNCHANGED <<bone_streams, rotation_format, translation_format, out, ret>>

AnimatedBone ==
    /\ pc = "loop"
    /\ op = "write_animated_track_data"
    /\ ~animated_loop_done(sample_index, num_samples)
    /\ out' = out \o animated_bone_bytes(bone_streams, bone_index, sample_index)
    /\ IF animated_offset_valid(Len(out'), data_size)
         THEN /\ sample_index' = animated_advance(sample_index, bone_index, num_samples, num_bones).sample_index
              /\ bone_index' = animated_advance(sample_index, bone_index, num_samples, num_bones).bone_index
              /\ UNCHANGED <<pc, err>>
         ELSE /\ pc' = "violation"
              /\ err' = "wrote_too_much"
              /\ UNCHANGED <<sample_index, bone_index>>
    /\ UNCHANGED <<bone_streams, op, rotation_format, translation_format, data_size,
                   num_samples, ret>>

\* get_raw_sample_ptr(sample_index) with sample_index beyond the stream: the
\* accessor rejects the index, or the read of foreign memory faults.  (The
\* third outcome, garbage bytes being copied, is AnimatedBone.)
AnimatedReadOutOfBounds ==
    /\ pc = "loop"
    /\ op = "write_animated_track_data"
    /\ ~animated_loop_done(sample_index, num_samples)
    /\ \/ rotation_read_out_of_bounds(bone_streams, bone_index, sample_index)
       \/ translation_read_out_of_bounds(bone_streams, bone_index, sample_index)
    /\ out' = IF rotation_read_out_of_bounds(bone_streams, bone_index, sample_index)
                THEN out
                ELSE out \o (IF is_rotation_animated(bone_streams[bone_index + 1])
                               THEN get_raw_sample(bone_index, "rotation",
                                        bone_streams[bone_index + 1].rotations, sample_index)
                               ELSE <<>>)
    /\ \E e \in {"invalid_sample_index", "fault"} :
        /\ err' = e
        /\ pc' = IF e = "fault" THEN "fault" ELSE "violation"
    /\ UNCHANGED <<bone_streams, op, rotation_format, translation_format, data_size,
                   bone_index, sample_index, num_samples, ret>>

AnimatedEnd ==
    /\ pc = "loop"
    /\ op = "write_animated_track_data"
    /\ animated_loop_done(sample_index, num_samples)
    /\ IF animated_offset_final(Len(out), data_size)
         THEN pc' = "returned" /\ UNCHANGED err
         ELSE pc' = "violation" /\ err' = "wrote_too_little"
    /\ UNCHANGED <<bone_streams, op, rotation_format, translation_format, data_size,
                   out, bone_index, sample_index, num_samples, ret>>

\* ------------------------------------------------- write_format_per_track_data
format_rotation_written(is_rotation_variable, bone_stream) ==
    is_rotation_variable /\ is_rotation_animated(bone_stream)

format_translation_written(is_translation_variable, bone_stream) ==
    is_translation_variable /\ is_translation_animated(bone_stream)

\* Variant: the clip-level format is stored.
format_rotation_byte_clip(rf, bone_stream) ==
    safe_static_cast_uint8(rotation_format_value(rf))

\* The byte stored for a rotation channel: bone_stream.rotations' own format
\* (rf is the clip-level argument).
format_rotation_byte(rf, bone_stream) ==
    safe_static_cast_uint8(rotation_format_value(bone_stream.rotations.format))

format_translation_byte(tf, bone_stream) ==
    safe_static_cast_uint8(vector_format_value(bone_stream.translations.format))

format_bone_bytes(bs, b, rf, tf) ==
    (IF format_rotation_written(is_rotation_format_variable(rf), bs[b + 1])
        THEN <<format_rotation_byte(rf, bs[b + 1])>> ELSE <<>>)
    \o (IF format_translation_written(is_vector_format_variable(tf), bs[b + 1])
        THEN <<format_translation_byte(tf, bs[b + 1])>> ELSE <<>>)

\* ACL_ENSURE(format_per_track_data <= format_per_track_data_end, ...)
format_offset_valid(cursor, end) == cursor <= end

\* ACL_ENSURE(format_per_track_data == format_per_track_data_end, ...)
format_offset_final(cursor, end) == cursor = end

WriteFormatPerTrackData ==
    /\ pc = "idle"
    /\ \E rf \in ClipRotationFormats, tf \in ClipVectorFormats :
        /\ rotation_format' = rf
        /\ translation_format' = tf
        /\ \E size \in SuppliedSizes(
                  get_format_per_track_data_size(bone_streams, num_bones, rf, tf)) :
              data_size' = size
    /\ pc' = "loop"
    /\ op' = "write_format_per_track_data"
    /\ bone_index' = 0
    /\ UNCHANGED <<bone_streams, out, sample_index, num_samples, err, ret>>

FormatBone ==
    /\ pc = "loop"
    /\ op = "write_format_per_track_data"
    /\ bone_index < num_bones
    /\ out' = out \o format_bone_bytes(bone_streams, bone_index,
                                       rotation_format, translation_format)
    /\ IF format_offset_valid(Len(out'), data_size)
         THEN /\ bone_index' = bone_index + 1
              /\ UNCHANGED <<pc, err>>
         ELSE /\ pc' = "violation"
              /\ err' = "wrote_too_much"
              /\ UNCHANGED bone_index
    /\ UNCHANGED <<bone_streams, op, rotation_format, translation_format, data_size,
                   sample_index, num_samples, ret>>

FormatEnd ==
    /\ pc = "loop"
    /\ op = "write_format_per_track_data"
    /\ bone_index = num_bones
    /\ IF format_offset_final(Len(out), data_size)
         THEN pc' = "returned" /\ UNCHANGED err
         ELSE pc' = "violation" /\ err' = "wrote_too_little"
    /\ UNCHANGED <<bone_streams, op, rotation_format, translation_format, data_size,
                   out, bone_index, sample_index, num_samples, ret>>

\* ------------------------------------------------ stores past the region end
\* The bytes the pending loop iteration stores.
PendingBytes ==
    CASE op = "write_constant_track_data" ->
            IF bone_index < num_bones
              THEN constant_bone_bytes(bone_streams, bone_index) ELSE <<>>
      [] op = "write_animated_track_data" ->
            IF ~animated_loop_done(sample_index, num_samples)
              THEN animated_bone_bytes(bone_streams, bone_index, sample_index) ELSE <<>>
      [] op = "write_format_per_track_data" ->
            IF bone_index < num_bones
              THEN format_bone_bytes(bone_streams, bone_index,
                                     rotation_format, translation_format) ELSE <<>>
      [] OTHER -> <<>>

\* The stores of an iteration precede its check.  A store past the destination
\* end is undefined: the bytes land in the memory that follows the region
\* (the Bone actions, whose check then fails), or the store faults.
StorePastEndFault ==
    /\ pc = "loop"
    /\ Len(out) + Len(PendingBytes) > data_size
    /\ out' = SubSeq(out \o PendingBytes, 1, data_size)
    /\ pc' = "fault"
    /\ err' = "fault"
    /\ UNCHANGED <<bone_streams, op, rotation_format, translation_format, data_size,
                   bone_index, sample_index, num_samples, ret>>

\* Every function of the header, on clips with a shared sample count.
Next ==
    \/ GetConstantDataSize
    \/ GetAnimatedDataSize
    \/ GetFormatPerTrackDataSize
    \/ WriteConstantTrackData
    \/ ConstantBone
    \/ ConstantEnd
    \/ WriteAnimatedTrackData
    \/ AnimatedBone
    \/ AnimatedEnd
    \/ WriteFormatPerTrackData
    \/ FormatBone
    \/ FormatEnd
    \/ StorePastEndFault

Spec == Init /\ [][Next]_vars

\* The constant region: calculator and writer.
NextConstant ==
    \/ GetConstantDataSize
    \/ WriteConstantTrackData
    \/ ConstantBone
    \/ ConstantEnd
    \/ StorePastEndFault

SpecConstant == InitConstant /\ [][NextConstant]_vars

\* The animated region: calculator and writer.
NextAnimated ==
    \/ GetAnimatedDataSize
    \/ WriteAnimatedTrackData
    \/ AnimatedBone
    \/ AnimatedReadOutOfBounds
    \/ AnimatedEnd
    \/ StorePastEndFault

SpecAnimated == InitAnimated /\ [][NextAnimated]_vars

\* The format-per-track table: calculator and writer.
NextFormat ==
    \/ GetFormatPerTrackDataSize
    \/ WriteFormatPerTrackData
    \/ FormatBone
    \/ FormatEnd
    \/ StorePastEndFault

SpecFormat == InitFormat /\ [][NextFormat]_vars

\* ===================================================== reference layout
\* The channels of the bone set in the order the regions list them: bones
\* ascending, rotation before translation.
ChannelSeq ==
    [j \in 1..(2 * num_bones) |->
        [bone |-> (j - 1) \div 2,
         ch |-> IF (j - 1) % 2 = 0 THEN "rotation" ELSE "translation"]]

ChannelIsDefault(c) ==
    IF c.ch = "rotation" THEN bone_streams[c.bone + 1].is_rotation_default
                         ELSE bone_streams[c.bone + 1].is_translation_default

ChannelIsConstant(c) ==
    IF c.ch = "rotation" THEN bone_streams[c.bone + 1].is_rotation_constant
                         ELSE bone_streams[c.bone + 1].is_translation_constant

ChannelStream(c) ==
    IF c.ch = "rotation" THEN bone_streams[c.bone + 1].rotations
                         ELSE bone_streams[c.bone + 1].translations

\* Default, Constant or Animated.
Category(c) ==
    IF ChannelIsDefault(c) THEN "Default"
    ELSE IF ChannelIsConstant(c) THEN "Constant"
    ELSE "Animated"

PackedSize(c) ==
    IF c.ch = "rotation" THEN get_packed_rotation_size(ChannelStream(c).format)
                         ELSE get_packed_vector_size(ChannelStream(c).format)

FormatId(c) ==
    IF c.ch = "rotation" THEN rotation_format_value(ChannelStream(c).format)
                         ELSE vector_format_value(ChannelStream(c).format)

\* The clip-level format family of the channel's type is variable.
FamilyVariable(c) ==
    IF c.ch = "rotation" THEN is_rotation_format_variable(rotation_format)
                         ELSE is_vector_format_variable(translation_format)

Eligible(c) == Category(c) = "Animated" /\ FamilyVariable(c)

\* The original bytes of sample t of channel c.
SampleBytes(c, t) == [k \in 1..PackedSize(c) |-> RawByte(c.bone, c.ch, t, k)]

AnimatedChannels == {j \in DOMAIN ChannelSeq : Category(ChannelSeq[j]) = "Animated"}

ConstantChannels == {j \in DOMAIN ChannelSeq : Category(ChannelSeq[j]) = "Constant"}

EligibleChannels == {j \in DOMAIN ChannelSeq : Eligible(ChannelSeq[j])}

RECURSIVE SumOver(_, _)
SumOver(S, f) ==
    IF S = {} THEN 0
    ELSE LET j == CHOOSE x \in S : TRUE IN f[j] + SumOver(S \ {j}, f)

PackedSizes == [j \in DOMAIN ChannelSeq |-> PackedSize(ChannelSeq[j])]

RECURSIVE Flatten(_)
Flatten(ss) == IF ss = <<>> THEN <<>> ELSE Head(ss) \o Flatten(Tail(ss))

\* Every animated channel reports the same sample count.
SharedSampleCount ==
    \A i, j \in AnimatedChannels :
        ChannelStream(ChannelSeq[i]).num_samples = ChannelStream(ChannelSeq[j]).num_samples

\* That count (0 when nothing is animated).
SharedN ==
    IF AnimatedChannels = {} THEN 0
    ELSE ChannelStream(ChannelSeq[CHOOSE j \in AnimatedChannels : TRUE]).num_samples

AllDefault == \A j \in DOMAIN ChannelSeq : Category(ChannelSeq[j]) = "Default"

Writers ==
    {"write_constant_track_data", "write_animated_track_data", "write_format_per_track_data"}

Terminated == pc \in {"returned", "violation", "fault"}

\* The pose slice of time t: sample t of every animated channel.
ExpectedPose(t) ==
    Flatten([j \in DOMAIN ChannelSeq |->
        IF Category(ChannelSeq[j]) = "Animated" THEN SampleBytes(ChannelSeq[j], t) ELSE <<>>])

ExpectedConstantRegion ==
    Flatten([j \in DOMAIN ChannelSeq |->
        IF Category(ChannelSeq[j]) = "Constant" THEN SampleBytes(ChannelSeq[j], 0) ELSE <<>>])

\* Offset of constant channel j when the region is split by the traversal.
ConstantOffset(j) == SumOver({i \in ConstantChannels : i < j}, PackedSizes)

\* The eligible channels in traversal order.
EligibleSeq == SelectSeq(ChannelSeq, Eligible)

\* Bytes the iterations of the running writer store, by iteration number:
\* a bone for the constant and format writers, a (time, bone) pair in
\* time-major order for the animated writer.
NumIterations ==
    IF op = "write_animated_track_data" THEN SharedN * num_bones ELSE num_bones

IterationBone(i) == IF num_bones = 0 THEN 0 ELSE i % num_bones

IterationSize(i) ==
    LET chans == {2 * IterationBone(i) + 1, 2 * IterationBone(i) + 2} IN
    CASE op = "write_constant_track_data" -> SumOver(chans \cap ConstantChannels, PackedSizes)
      [] op = "write_animated_track_data" -> SumOver(chans \cap AnimatedChannels, PackedSizes)
      [] OTHER -> Cardinality(chans \cap EligibleChannels)

RECURSIVE ConsumedBefore(_)
ConsumedBefore(i) == IF i = 0 THEN 0 ELSE ConsumedBefore(i - 1) + IterationSize(i - 1)

Consumed == ConsumedBefore(NumIterations)

\* The iteration the writer is in.
CurrentIteration ==
    IF op = "write_animated_track_data" THEN sample_index * num_bones + bone_index
                                        ELSE bone_index

\* The first iteration after which the cursor is past the destination end.
FirstExceeding ==
    CHOOSE i \in 0..NumIterations :
        /\ i < NumIterations => ConsumedBefore(i + 1) > data_size
        /\ \A k \in 0..(i - 1) : ConsumedBefore(k + 1) <= data_size

\* ================================================================ claims
\* C1 (as stated): whenever the animated writer accepts the bone set and is
\* given get_animated_data_size as its region size, it passes every check and
\* ends with the cursor at the region end.
C1_AnimatedSizeWriteAgreement_AsStated ==
    (/\ op = "write_animated_track_data"
     /\ Terminated
     /\ has_samples_to_write(num_samples)
     /\ data_size = get_animated_data_size(bone_streams, num_bones).size)
    => (pc = "returned" /\ Len(out) = data_size)

\* C1 (amended): the same, for bone sets whose animated channels all report
\* one shared sample count.
C1_AnimatedSizeWriteAgreement ==
    (/\ op = "write_animated_track_data"
     /\ Terminated
     /\ has_samples_to_write(num_samples)
     /\ SharedSampleCount
     /\ data_size = get_animated_data_size(bone_streams, num_bones).size)
    => (pc = "returned" /\ Len(out) = data_size)

C1_Witness ==
    /\ op = "write_animated_track_data"
    /\ pc = "returned"
    /\ SharedSampleCount
    /\ Cardinality(AnimatedChannels) >= 3
    /\ data_size = get_animated_data_size(bone_streams, num_bones).size
    /\ Len(out) = data_size

\* C2 (as stated): on an all-Default bone set the three calculators return 0
\* and each of the three writers, called with size 0, completes without a
\* violation and stores no byte.
C2_ZeroChannelBoundary_AsStated ==
    AllDefault =>
        /\ get_constant_data_size(bone_streams, num_bones) = 0
        /\ get_animated_data_size(bone_streams, num_bones).size = 0
        /\ \A rf \in RotationFormats, tf \in VectorFormats :
              get_format_per_track_data_size(bone_streams, num_bones, rf, tf) = 0
        /\ (op \in Writers /\ data_size = 0) =>
              (pc \in {"loop", "returned"} /\ err = "none" /\ out = <<>>)

\* C2 (amended): on an all-Default bone set the three calculators return 0;
\* the constant and the format writer, called with size 0, complete without a
\* violation and store no byte; the animated writer stores no byte and ends in
\* the violation "No samples to write!".
C2_ZeroChannelBoundary ==
    AllDefault =>
        /\ get_constant_data_size(bone_streams, num_bones) = 0
        /\ get_animated_data_size(bone_streams, num_bones).size = 0
        /\ \A rf \in RotationFormats, tf \in VectorFormats :
              get_format_per_track_data_size(bone_streams, num_bones, rf, tf) = 0
        /\ (op \in {"write_constant_track_data", "write_format_per_track_data"}
              /\ data_size = 0) =>
              (pc \in {"loop", "returned"} /\ err = "none" /\ out = <<>>)
        /\ (op = "write_animated_track_data" /\ data_size = 0) =>
              (pc = "violation" /\ err = "no_samples" /\ out = <<>>)

C2_Witness ==
    /\ AllDefault
    /\ num_bones >= 2
    /\ op = "write_constant_track_data"
    /\ data_size = 0
    /\ pc = "returned"

\* C3: whenever the sample count the animated writer obtains is 0 or 1, the
\* call ends in the violation "No samples to write!" and no byte is stored,
\* whatever the bone set and the region size.
C3_FatalBoundary ==
    (op = "write_animated_track_data" /\ num_samples <= 1)
    => (pc = "violation" /\ err = "no_samples" /\ out = <<>>)

C3_Witness ==
    /\ op = "write_animated_track_data"
    /\ num_samples = 1
    /\ data_size > 0
    /\ pc = "violation"
    /\ err = "no_samples"

\* C4: after the animated writer completes on a bone set whose animated
\* channels share sample count N > 1, bytes [t*stride, (t+1)*stride) of the
\* region are, for every t < N, exactly sample t of every animated channel,
\* bones ascending, rotation before translation.
C4_PoseSliceContiguity ==
    (/\ op = "write_animated_track_data"
     /\ pc = "returned"
     /\ SharedSampleCount
     /\ SharedN > 1)
    => LET stride == get_animated_data_size(bone_streams, num_bones).pose IN
       \A t \in 0..(SharedN - 1) :
           /\ (t + 1) * stride <= Len(out)
           /\ SubSeq(out, t * stride + 1, (t + 1) * stride) = ExpectedPose(t)

C4_Witness ==
    /\ op = "write_animated_track_data"
    /\ pc = "returned"
    /\ SharedSampleCount
    /\ SharedN > 1
    /\ Cardinality(AnimatedChannels) >= 3
    /\ ConstantChannels # {}

\* C5: a channel adds one byte to the format table iff it is Animated and its
\* format family is variable; get_format_per_track_data_size and the bytes the
\* writer stores both equal the count of such channels, so the writer given
\* that size ends with the cursor at the region end.
C5_FormatTableSelectivity ==
    /\ (op = "get_format_per_track_data_size" /\ pc = "returned")
          => ret.size = Cardinality(EligibleChannels)
    /\ (op = "write_format_per_track_data" /\ pc = "loop")
          => Len(out) = Cardinality({j \in EligibleChannels : j <= 2 * bone_index})
    /\ (op = "write_format_per_track_data" /\ Terminated
          /\ data_size = get_format_per_track_data_size(bone_streams, num_bones,
                                                        rotation_format, translation_format))
          => (pc = "returned" /\ Len(out) = Cardinality(EligibleChannels)
              /\ Len(out) = data_size)

C5_Witness ==
    /\ op = "write_format_per_track_data"
    /\ pc = "returned"
    /\ Len(out) >= 2
    /\ \E j \in AnimatedChannels : ~Eligible(ChannelSeq[j])
    /\ ConstantChannels # {}

\* C6: the constant writer given get_constant_data_size completes, and the
\* region is sample 0 of every constant, non-default channel, bones ascending,
\* rotation before translation; splitting it by the same traversal gives each
\* such channel its original bytes back, and no other channel adds a byte.
C6_ConstantRoundTrip ==
    (/\ op = "write_constant_track_data"
     /\ Terminated
     /\ data_size = get_constant_data_size(bone_streams, num_bones))
    => /\ pc = "returned"
       /\ Len(out) = data_size
       /\ out = ExpectedConstantRegion
       /\ Len(out) = SumOver(ConstantChannels, PackedSizes)
       /\ \A j \in ConstantChannels :
             SubSeq(out, ConstantOffset(j) + 1, ConstantOffset(j) + PackedSizes[j])
                = SampleBytes(ChannelSeq[j], 0)

C6_Witness ==
    /\ op = "write_constant_track_data"
    /\ pc = "returned"
    /\ Cardinality(ConstantChannels) >= 2
    /\ AnimatedChannels # {}
    /\ data_size = get_constant_data_size(bone_streams, num_bones)

\* C7: when the animated channels share sample count N, get_animated_data_size
\* returns stride * N, the stride being the sum of the packed sample sizes of
\* the animated channels; Constant and Default channels add nothing.
C7_AnimatedTotalVersusStride ==
    (op = "get_animated_data_size" /\ pc = "returned" /\ SharedSampleCount)
    => /\ ret.pose = SumOver(AnimatedChannels, PackedSizes)
       /\ ret.size = ret.pose * SharedN

C7_Witness ==
    /\ op = "get_animated_data_size"
    /\ pc = "returned"
    /\ SharedSampleCount
    /\ SharedN > 1
    /\ Cardinality(AnimatedChannels) >= 2
    /\ ConstantChannels # {}

\* C8: after the format writer completes, byte i of the table is the numeric
\* id of the resolved format of the i-th eligible channel (bones ascending,
\* rotation before translation) and fits in one byte.
C8_FormatTableContent ==
    (op = "write_format_per_track_data" /\ pc = "returned")
    => /\ Len(out) = Len(EligibleSeq)
       /\ \A i \in 1..Len(out) :
             /\ out[i] = FormatId(EligibleSeq[i])
             /\ out[i] \in 0..255

C8_Witness ==
    /\ op = "write_format_per_track_data"
    /\ pc = "returned"
    /\ Len(out) >= 3
    /\ out[1] # out[2]

\* C9 (as stated): each writer completes normally iff the region size equals
\* the bytes its traversal stores; a smaller size ends in "Wrote too much
\* data" at the check of the first bone after which the cursor is past the
\* end; a larger size ends in "Wrote too little data" after the traversal.
C9_SizeMismatchDetection_AsStated ==
    (op \in Writers /\ Terminated)
    => /\ (pc = "returned") <=> (data_size = Consumed)
       /\ data_size < Consumed =>
             (err = "wrote_too_much" /\ CurrentIteration = FirstExceeding)
       /\ data_size > Consumed =>
             (err = "wrote_too_little" /\ CurrentIteration = NumIterations)

\* C9 (amended): the same for the constant and format writers and for the
\* animated writer on a bone set whose animated channels share a sample count
\* above 1, except that with a smaller size the stores of that bone go past
\* the region end before its check, so the call ends either in "Wrote too
\* much data" at that check or in a fault of the store; the animated writer
\* with a sample count of 0 or 1 ends in "No samples to write!".
C9_SizeMismatchDetection ==
    (op \in Writers /\ Terminated)
    => IF op = "write_animated_track_data" /\ ~has_samples_to_write(num_samples)
         THEN err = "no_samples"
       ELSE (op = "write_animated_track_data" => SharedSampleCount)
         => /\ (pc = "returned") <=> (data_size = Consumed)
            /\ data_size < Consumed =>
                  (err \in {"wrote_too_much", "fault"} /\ CurrentIteration = FirstExceeding)
            /\ data_size > Consumed =>
                  (err = "wrote_too_little" /\ CurrentIteration = NumIterations)

C9_Witness ==
    /\ op = "write_animated_track_data"
    /\ pc = "violation"
    /\ err = "wrote_too_much"
    /\ SharedSampleCount
    /\ sample_index = 1
    /\ num_bones >= 2
    /\ bone_index = 1

\* C10: no byte is ever stored at or beyond the destination end.
C10_NoExtraWrites ==
    op \in Writers => Len(out) <= data_size
====
